---------------------------- MODULE Spec2Model ----------------------------
(***************************************************************************)
(* STRAT scanner (streamlit_app.py): the bar accessor get_val, the pattern  *)
(* classifier strat_type, the continuity evaluator calculate_ftfc and the   *)
(* scanner loop that runs when the "Run Scanner" button is pressed.         *)
(*                                                                         *)
(* Prices are whole numbers 1..MaxPrice (round(x, 2) leaves such a price    *)
(* unchanged).  A Python float is the record [nan, v]; comparisons follow   *)
(* IEEE 754: every ordered comparison with NaN is false.  A Python call     *)
(* that may raise is a record with a field "raised".                        *)
(***************************************************************************)
EXTENDS Integers, Sequences, FiniteSets, TLC

VARIABLES
    timeframe,       \* st.selectbox "Select Timeframe"
    prev_patterns,   \* st.multiselect "Previous Candle"
    curr_patterns,   \* st.multiselect "Current Candle"
    ftfc_filter,     \* st.multiselect "FTFC Direction"
    limit_tickers,   \* st.number_input "Limit tickers (0 = all)"
    market,          \* what yf.download answers, per ticker, during this run
    pc,              \* position of the script: "idle", "scanning", "done"
    idx,             \* number of loop iterations completed
    data,            \* scanner local: the last downloaded frame
    prev_candle,     \* scanner local
    curr_candle,     \* scanner local
    ftfc_str,        \* scanner local
    results,         \* scanner local: the list of result rows
    call,            \* a direct call of strat_type / calculate_ftfc: its arguments
    ret              \* <<>> while the call is pending, <<value>> once it returned

vars == <<timeframe, prev_patterns, curr_patterns, ftfc_filter, limit_tickers,
          market, pc, idx, data, prev_candle, curr_candle, ftfc_str, results,
          call, ret>>

widgets == <<timeframe, prev_patterns, curr_patterns, ftfc_filter, limit_tickers>>

locals == <<data, prev_candle, curr_candle, ftfc_str, results>>

----------------------------------------------------------------------------
(* Bounds *)

\* prices used by the direct calls of strat_type and calculate_ftfc
MaxPrice == 3

\* size of the ticker universe TICKERS
NumTickers == 2

\* highs and lows of the bars the scanner downloads
ScanMaxPrice == 2

----------------------------------------------------------------------------
(* Values *)

Fields == {"Open", "High", "Low", "Close"}

\* A cell of a pandas row: a number, NaN, a non-numeric object, or no such column.
Num(n) == [k |-> "num", v |-> n]

NaNCell == [k |-> "nan", v |-> 0]

TextCell == [k |-> "text", v |-> 0]

MissingCell == [k |-> "missing", v |-> 0]

BadCells == {NaNCell, TextCell, MissingCell}

NumCells(p) == {Num(n) : n \in 1..p}

Cells(p) == NumCells(p) \cup BadCells

\* Python floats
F(n) == [nan |-> FALSE, v |-> n]

NaN == [nan |-> TRUE, v |-> 0]

Lt(a, b) == ~a.nan /\ ~b.nan /\ a.v < b.v

Gt(a, b) == ~a.nan /\ ~b.nan /\ a.v > b.v

Ge(a, b) == ~a.nan /\ ~b.nan /\ a.v >= b.v

Ok(x) == [raised |-> FALSE, exc |-> "", val |-> x]

Raise(e) == [raised |-> TRUE, exc |-> e, val |-> NaN]

\* float(x) of a cell; reading a column that is not there raises KeyError first
float(c) ==
    CASE c.k = "num"     -> Ok(F(c.v))
      [] c.k = "nan"     -> Ok(NaN)
      [] c.k = "text"    -> Raise("ValueError")
      [] c.k = "missing" -> Raise("KeyError")

\* TICKERS: sorted(set(...)), so strictly increasing; a ticker is its rank
TICKERS == [i \in 1..NumTickers |-> i]

\* the column tag of a frame that belongs to no requested ticker
OtherTag == NumTickers + 1

----------------------------------------------------------------------------
(* Frames: what yf.download returns *)

\* A DataFrame: flat columns, or MultiIndex columns (field, tag) for one ticker.
\* raised = TRUE stands for a download that raised instead of returning.
Frame(multi, tag, rows) == [raised |-> FALSE, multi |-> multi, tag |-> tag, rows |-> rows]

FailedDownload == [raised |-> TRUE, multi |-> FALSE, tag |-> OtherTag, rows |-> <<>>]

EmptyFrame == Frame(FALSE, OtherTag, <<>>)

\* data.iloc[i] for i = -1, -2, -3: a row keeps the frame's column index
iloc(frame, i) ==
    [multi |-> frame.multi, tag |-> frame.tag, cells |-> frame.rows[Len(frame.rows) + 1 + i]]

Bar(o, h, l, c) == [Open |-> o, High |-> h, Low |-> l, Close |-> c]

\* yf.download(ticker, period=..., interval=...): one answer per ticker and purpose
yf_download(ticker, what) == market[ticker][what]

----------------------------------------------------------------------------
(* get_val: lines 37-51 *)

\* (col, ticker) in row.index
HasKey(row, col, ticker) == row.tag = ticker /\ row.cells[col].k # "missing"

\* The frames of this program carry one ticker, so row[(col, ticker)], the first
\* value under row[col] and the flat row[col] are the same cell; what differs is
\* which statement reads it and whether its exception is swallowed on the way.
get_val(row, col, ticker) ==
    LET keyed == float(row.cells[col])      \* float(row[(col, ticker)])
        first == float(row.cells[col])      \* float(row[col].iloc[0])
        tried == IF HasKey(row, col, ticker) THEN keyed ELSE first
        flat  == float(row.cells[col])      \* float(row[col])
    IN  IF row.multi /\ ~tried.raised
           THEN tried                       \* returned inside the try
           ELSE flat                        \* except (KeyError, IndexError, ValueError): pass

----------------------------------------------------------------------------
(* strat_type: lines 56-79 *)

\* a slip: the 2U test placed before the Outside test
PatternOf_reordered(prev_h, prev_l, curr_h, curr_l, curr_o, curr_c) ==
    LET candle_color == IF Ge(curr_c, curr_o) THEN "Green" ELSE "Red"
    IN  IF Lt(curr_h, prev_h) /\ Gt(curr_l, prev_l) THEN "1 (Inside)"
        ELSE IF Gt(curr_h, prev_h) THEN "2U " \o candle_color
        ELSE IF Gt(curr_h, prev_h) /\ Lt(curr_l, prev_l) THEN "3 (Outside)"
        ELSE IF Lt(curr_l, prev_l) THEN "2D " \o candle_color
        ELSE "Undefined"

\* a slip: the Inside test made inclusive (<=, >=)
PatternOf_inclusive(prev_h, prev_l, curr_h, curr_l, curr_o, curr_c) ==
    LET candle_color == IF Ge(curr_c, curr_o) THEN "Green" ELSE "Red"
    IN  IF ~Gt(curr_h, prev_h) /\ ~Lt(curr_l, prev_l) THEN "1 (Inside)"
        ELSE IF Gt(curr_h, prev_h) /\ Lt(curr_l, prev_l) THEN "3 (Outside)"
        ELSE IF Gt(curr_h, prev_h) THEN "2U " \o candle_color
        ELSE IF Lt(curr_l, prev_l) THEN "2D " \o candle_color
        ELSE "Undefined"

\* lines 68-79
PatternOf(prev_h, prev_l, curr_h, curr_l, curr_o, curr_c) ==
    LET candle_color == IF Ge(curr_c, curr_o) THEN "Green" ELSE "Red"
    IN  IF Lt(curr_h, prev_h) /\ Gt(curr_l, prev_l) THEN "1 (Inside)"
        ELSE IF Gt(curr_h, prev_h) /\ Lt(curr_l, prev_l) THEN "3 (Outside)"
        ELSE IF Gt(curr_h, prev_h) THEN "2U " \o candle_color
        ELSE IF Lt(curr_l, prev_l) THEN "2D " \o candle_color
        ELSE "Undefined"

\* lines 58-66: the label once the six reads are done, or the error of the first
\* read that raised (except Exception as e: return f"Error: {e}")
LabelOf(reads) ==
    IF \E i \in 1..6 : reads[i].raised
       THEN "Error: " \o reads[CHOOSE i \in 1..6 :
                                 reads[i].raised /\ \A j \in 1..(i - 1) : ~reads[j].raised].exc
       ELSE PatternOf(reads[1].val, reads[2].val, reads[3].val,
                      reads[4].val, reads[5].val, reads[6].val)

strat_type(prev, curr, ticker) ==
    LabelOf(<< get_val(prev, "High", ticker), get_val(prev, "Low", ticker),
               get_val(curr, "High", ticker), get_val(curr, "Low", ticker),
               get_val(curr, "Open", ticker), get_val(curr, "Close", ticker) >>)

ErrorLabels == {"Error: KeyError", "Error: ValueError"}

\* "Error" in str(label): no pattern label contains the word
IsError(label) == label \in ErrorLabels

----------------------------------------------------------------------------
(* calculate_ftfc: lines 84-163 *)

\* ", ".join(tags): the string as its pieces, separators included
RECURSIVE Join(_)
Join(tags) ==
    IF Len(tags) = 0 THEN <<>>
    ELSE IF Len(tags) = 1 THEN tags
    ELSE <<Head(tags), ", ">> \o Join(Tail(tags))

\* f in ftfc_str, for f one of the tags: a tag is no part of another piece
In(f, str) == \E i \in DOMAIN str : str[i] = f

\* The body of one try block (lines 93-111, 119-136, 142-159): the tags it
\* appends, or the exception that leaves it.
TimeframeBlock(frame, ticker, current_close, P) ==
    IF frame.raised THEN [raised |-> TRUE, tags |-> <<>>]
    ELSE IF Len(frame.rows) = 0 THEN [raised |-> FALSE, tags |-> <<>>]   \* data.empty
    ELSE LET last == frame.rows[Len(frame.rows)]
             open == IF frame.multi /\ frame.tag # ticker
                        THEN Raise("KeyError")           \* row[("Open", ticker)]
                        ELSE float(last["Open"])
         IN  IF open.raised THEN [raised |-> TRUE, tags |-> <<>>]
             ELSE IF Gt(current_close, open.val)
                     THEN [raised |-> FALSE, tags |-> <<P \o ": Bullish">>]
             ELSE IF Lt(current_close, open.val)
                     THEN [raised |-> FALSE, tags |-> <<P \o ": Bearish">>]
             ELSE [raised |-> FALSE, tags |-> <<>>]

\* a slip: one try block around both timeframes, so the first failure ends both
calculate_ftfc_one_try(ticker, current_close, is_quarterly) ==
    LET m == TimeframeBlock(yf_download(ticker, "monthly"), ticker, current_close, "M")
        s == IF is_quarterly
                THEN TimeframeBlock(yf_download(ticker, "quarterly"), ticker, current_close, "Q")
                ELSE TimeframeBlock(yf_download(ticker, "weekly"), ticker, current_close, "W")
        ftfc_results == IF m.raised THEN <<>>
                        ELSE IF s.raised THEN m.tags
                        ELSE m.tags \o s.tags
    IN  [raised |-> FALSE,
         val |-> IF ftfc_results # <<>> THEN Join(ftfc_results) ELSE <<"N/A">>]

calculate_ftfc(ticker, current_close, is_quarterly) ==
    LET m == TimeframeBlock(yf_download(ticker, "monthly"), ticker, current_close, "M")
        s == IF is_quarterly
                THEN TimeframeBlock(yf_download(ticker, "quarterly"), ticker, current_close, "Q")
                ELSE TimeframeBlock(yf_download(ticker, "weekly"), ticker, current_close, "W")
        \* except Exception as e: pass
        ftfc_results == (IF m.raised THEN <<>> ELSE m.tags) \o (IF s.raised THEN <<>> ELSE s.tags)
    IN  [raised |-> FALSE,
         val |-> IF ftfc_results # <<>> THEN Join(ftfc_results) ELSE <<"N/A">>]

----------------------------------------------------------------------------
(* The widgets: lines 171-225 *)

Timeframes == {"Daily", "Weekly", "Monthly", "3-Month"}

\* lines 193-198
min_candles_map(tf) == IF tf = "3-Month" THEN 2 ELSE 3

\* line 200
available_patterns ==
    {"1 (Inside)", "3 (Outside)", "2U Red", "2U Green", "2D Red", "2D Green"}

\* lines 213-216
ftfc_options(tf) ==
    IF tf = "3-Month"
       THEN {"Any", "M: Bullish", "M: Bearish", "Q: Bullish", "Q: Bearish",
             "Both Bullish", "Both Bearish"}
       ELSE {"Any", "M: Bullish", "M: Bearish", "W: Bullish", "W: Bearish",
             "Both Bullish", "Both Bearish"}

----------------------------------------------------------------------------
(* The scanner loop: lines 232-346 *)

\* line 235
tickers_to_scan ==
    IF limit_tickers > 0 THEN SubSeq(TICKERS, 1, limit_tickers) ELSE TICKERS

total == Len(tickers_to_scan)

is_3m == timeframe = "3-Month"

\* line 272
Insufficient(d, min_candles) == Len(d.rows) = 0 \/ Len(d.rows) < min_candles

\* lines 279-293: <<prev_candle, curr_candle>>, or the IndexError of data.iloc[-3]
Candles(d, ticker) ==
    IF is_3m /\ Len(d.rows) >= 2
       THEN [raised |-> FALSE,
             prev |-> "N/A (3M)",
             curr |-> strat_type(iloc(d, -2), iloc(d, -1), ticker)]
    ELSE IF Len(d.rows) < 3
       THEN [raised |-> TRUE, prev |-> "", curr |-> ""]
    ELSE [raised |-> FALSE,
          prev |-> strat_type(iloc(d, -3), iloc(d, -2), ticker),
          curr |-> strat_type(iloc(d, -2), iloc(d, -1), ticker)]

\* a slip: "or" between the two filter conditions
pattern_match_or(prev, curr) ==
    IF is_3m /\ prev = "N/A (3M)"
       THEN curr_patterns = {} \/ curr \in curr_patterns
       ELSE (prev_patterns = {} \/ prev \in prev_patterns)
            \/ (curr_patterns = {} \/ curr \in curr_patterns)

\* lines 302-306
pattern_match(prev, curr) ==
    IF is_3m /\ prev = "N/A (3M)"
       THEN curr_patterns = {} \/ curr \in curr_patterns
       ELSE (prev_patterns = {} \/ prev \in prev_patterns)
            /\ (curr_patterns = {} \/ curr \in curr_patterns)

\* lines 319-331: TRUE when the row is kept
ftfc_pass(str) ==
    IF "Any" \in ftfc_filter THEN TRUE
    ELSE IF "Both Bullish" \in ftfc_filter
       THEN (In("M: Bullish", str) /\ In("W: Bullish", str))
            \/ (In("M: Bullish", str) /\ In("Q: Bullish", str))
    ELSE IF "Both Bearish" \in ftfc_filter
       THEN (In("M: Bearish", str) /\ In("W: Bearish", str))
            \/ (In("M: Bearish", str) /\ In("Q: Bearish", str))
    ELSE \E f \in ftfc_filter : f # "Any" /\ In(f, str)

\* line 338
Direction(curr_close, curr_open) == IF Gt(curr_close, curr_open) THEN "Up" ELSE "Down"

\* lines 334-341; round(curr_close, 2) of a whole price or of NaN is the value itself
Row(ticker, prev, curr, curr_close, curr_open, str) ==
    [Ticker |-> ticker, Previous |-> prev, Current |-> curr,
     Direction |-> Direction(curr_close, curr_open),
     Close |-> curr_close, FTFC |-> str]

\* a slip: results.insert(0, row)
AddResult_front(rs, row) == <<row>> \o rs

\* line 334: results.append(row)
AddResult(rs, row) == Append(rs, row)

\* a slip: no per-symbol try/except, the first exception ends the scan
AfterException_abort == "crashed"

\* lines 343-346: except Exception: continue
AfterException == "scanning"

\* the element of a one-element set: {F(x) : x \in {e}} computes e once
Only(S) == CHOOSE x \in S : TRUE

\* One pass of the loop body is a record: how far it got (stage), the locals as
\* it leaves them and the row it appended, if any.
Pass(stage, d, prev, curr, str, row) ==
    [stage |-> stage, data |-> d, prev |-> prev, curr |-> curr, ftfc |-> str, row |-> row]

\* lines 318-341: the FTFC filter and the row
AfterFtfc(ticker, d, c, curr_close, curr_open, f) ==
    IF f.raised THEN Pass("exception", d, c.prev, c.curr, ftfc_str, <<>>)
    ELSE IF ~ftfc_pass(f.val) THEN Pass("ftfc", d, c.prev, c.curr, f.val, <<>>)
    ELSE Pass("row", d, c.prev, c.curr, f.val,
              <<Row(ticker, c.prev, c.curr, curr_close, curr_open, f.val)>>)

\* lines 311-316: the prices of the last bar, then calculate_ftfc
AfterPrices(ticker, d, c, curr_close, curr_open) ==
    IF curr_close.raised \/ curr_open.raised
       THEN Pass("exception", d, c.prev, c.curr, ftfc_str, <<>>)
       ELSE Only({AfterFtfc(ticker, d, c, curr_close.val, curr_open.val, f) :
                    f \in {calculate_ftfc(ticker, curr_close.val, is_3m)}})

\* lines 295-313: the error check and the pattern filters
AfterCandles(ticker, d, c) ==
    IF c.raised THEN Pass("exception", d, prev_candle, curr_candle, ftfc_str, <<>>)
    ELSE IF IsError(c.prev) \/ IsError(c.curr)
       THEN Pass("error", d, c.prev, c.curr, ftfc_str, <<>>)
    ELSE IF ~pattern_match(c.prev, c.curr)
       THEN Pass("pattern", d, c.prev, c.curr, ftfc_str, <<>>)
    ELSE Only({AfterPrices(ticker, d, c, curr_close, curr_open) :
                 curr_close \in {get_val(iloc(d, -1), "Close", ticker)},
                 curr_open \in {get_val(iloc(d, -1), "Open", ticker)}})

\* lines 271-293: the check of the number of candles, then the two patterns
AfterDownload(ticker, d) ==
    IF d.raised THEN Pass("exception", data, prev_candle, curr_candle, ftfc_str, <<>>)
    ELSE IF Insufficient(d, min_candles_map(timeframe))
       THEN Pass("insufficient", d, prev_candle, curr_candle, ftfc_str, <<>>)
    ELSE Only({AfterCandles(ticker, d, c) : c \in {Candles(d, ticker)}})

\* lines 246-346
Iteration(ticker) == AfterDownload(ticker, yf_download(ticker, "main"))

\* if scan_button: lines 232-244
RunScanner ==
    /\ pc = "idle"
    /\ pc' = "scanning"
    /\ idx' = 0
    /\ results' = <<>>
    /\ UNCHANGED <<widgets, market, data, prev_candle, curr_candle, ftfc_str, call, ret>>

\* for idx, ticker in enumerate(tickers_to_scan): one pass, lines 246-346
ScanTicker ==
    /\ pc = "scanning"
    /\ idx < total
    /\ \E it \in {Iteration(tickers_to_scan[idx + 1])} :
           /\ data' = it.data
           /\ prev_candle' = it.prev
           /\ curr_candle' = it.curr
           /\ ftfc_str' = it.ftfc
           /\ results' = IF it.row # <<>> THEN AddResult(results, it.row[1]) ELSE results
           /\ pc' = IF it.stage = "exception" THEN AfterException ELSE "scanning"
    /\ idx' = idx + 1
    /\ UNCHANGED <<widgets, market, call, ret>>

\* the loop is over: lines 348-409
Finish ==
    /\ pc = "scanning"
    /\ idx = total
    /\ pc' = "done"
    /\ UNCHANGED <<widgets, market, idx, locals, call, ret>>

ScanNext == RunScanner \/ ScanTicker \/ Finish

----------------------------------------------------------------------------
(* Direct calls of the two functions *)

NoCall == [fn |-> "none"]

StratTypeCall ==
    /\ call.fn = "strat_type"
    /\ ret = <<>>
    /\ ret' = <<strat_type(call.prev, call.curr, call.ticker)>>
    /\ UNCHANGED <<widgets, market, pc, idx, locals, call>>

CalculateFtfcCall ==
    /\ call.fn = "calculate_ftfc"
    /\ ret = <<>>
    /\ ret' = <<calculate_ftfc(call.ticker, call.current_close, call.is_quarterly)>>
    /\ UNCHANGED <<widgets, market, pc, idx, locals, call>>

ClassifyNext == StratTypeCall

FtfcNext == CalculateFtfcCall

----------------------------------------------------------------------------
(* Initial states *)

\* the column index of a frame: flat, tagged with the ticker, tagged otherwise
Forms(ticker) == {<<FALSE, OtherTag>>, <<TRUE, ticker>>, <<TRUE, OtherTag>>}

\* a quote nobody asks for
NoQuote == [main |-> EmptyFrame, monthly |-> EmptyFrame, weekly |-> EmptyFrame,
            quarterly |-> EmptyFrame]

UnsetLocals ==
    /\ data = EmptyFrame
    /\ prev_candle = ""
    /\ curr_candle = ""
    /\ ftfc_str = <<>>
    /\ results = <<>>

DefaultWidgets ==
    /\ timeframe = "Daily"
    /\ prev_patterns = available_patterns
    /\ curr_patterns = available_patterns
    /\ ftfc_filter = {"Any"}
    /\ limit_tickers = 0

\* strat_type called on every pair of rows of one frame: the cells it reads take
\* every value, the previous row's Open and Close (never read) two.
ClassifyInit ==
    /\ DefaultWidgets
    /\ UnsetLocals
    /\ market = [t \in 1..NumTickers |-> NoQuote]
    /\ pc = "idle"
    /\ idx = 0
    /\ ret = <<>>
    /\ \E form \in Forms(TICKERS[1]), unread \in {Num(1), MissingCell},
          ph \in Cells(MaxPrice), pl \in Cells(MaxPrice),
          ch \in Cells(MaxPrice), cl \in Cells(MaxPrice),
          co \in Cells(MaxPrice), cc \in Cells(MaxPrice) :
          call = [fn |-> "strat_type", ticker |-> TICKERS[1],
                  prev |-> [multi |-> form[1], tag |-> form[2],
                            cells |-> Bar(unread, ph, pl, unread)],
                  curr |-> [multi |-> form[1], tag |-> form[2],
                            cells |-> Bar(co, ch, cl, cc)]]

ClassifySpec == ClassifyInit /\ [][ClassifyNext]_vars

\* the answers of the provider to one higher-timeframe download
Responses(ticker, p) ==
    {FailedDownload, EmptyFrame}
    \cup {Frame(form[1], form[2], older \o <<Bar(o, Num(p), Num(1), Num(1))>>) :
            form \in Forms(ticker), o \in Cells(p),
            older \in {<<>>, <<Bar(Num(p), Num(p), Num(1), Num(1))>>}}

\* calculate_ftfc called with every reference close, both modes and every pair of
\* answers; the timeframe the mode does not use answers in two ways.
FtfcInit ==
    /\ DefaultWidgets
    /\ UnsetLocals
    /\ pc = "idle"
    /\ idx = 0
    /\ ret = <<>>
    /\ \E m \in Responses(TICKERS[1], MaxPrice), s \in Responses(TICKERS[1], MaxPrice),
          u \in {EmptyFrame, Frame(FALSE, OtherTag, <<Bar(Num(1), Num(1), Num(1), Num(1))>>)},
          q \in BOOLEAN, c \in {F(n) : n \in 1..MaxPrice} \cup {NaN} :
          /\ market = [t \in 1..NumTickers |->
                         IF t = TICKERS[1]
                            THEN [main |-> EmptyFrame, monthly |-> m,
                                  weekly |-> IF q THEN u ELSE s,
                                  quarterly |-> IF q THEN s ELSE u]
                            ELSE NoQuote]
          /\ call = [fn |-> "calculate_ftfc", ticker |-> TICKERS[1],
                     current_close |-> c, is_quarterly |-> q]

FtfcSpec == FtfcInit /\ [][FtfcNext]_vars

----------------------------------------------------------------------------
(* Initial states of a scan *)

\* open and close of a bar: a doji, an up bar, a down bar
OpenClose == {<<Num(1), Num(1)>>, <<Num(1), Num(2)>>, <<Num(2), Num(1)>>}

\* a bar of which the scanner reads every cell
ReadBars(p) ==
    {Bar(oc[1], h, l, oc[2]) : h \in NumCells(p), l \in NumCells(p), oc \in OpenClose}

\* a bar of which the scanner reads High and Low at most
OldBars(p) == {Bar(Num(1), h, l, Num(1)) : h \in NumCells(p), l \in NumCells(p)}

\* histories of 0 to 3 bars with numbers in every cell
GoodRows(p) ==
    {<<>>}
    \cup {<<a>> : a \in OldBars(p)}
    \cup {<<a, b>> : a \in OldBars(p), b \in ReadBars(p)}
    \cup {<<a, b, c>> : a \in OldBars(p), b \in ReadBars(p), c \in ReadBars(p)}

\* a narrow bar, a wider down bar, a still wider up bar: 2U Red, then 2U Green
BaseRows ==
    << Bar(Num(1), Num(1), Num(1), Num(1)),
       Bar(Num(2), Num(2), Num(1), Num(1)),
       Bar(Num(1), Num(3), Num(1), Num(2)) >>

\* BaseRows, whole or its last two bars or behind an older bar, one cell spoiled
SpoiledRows ==
    UNION {{[rows EXCEPT ![i] = [rows[i] EXCEPT ![col] = bad]] :
                i \in DOMAIN rows, col \in Fields, bad \in BadCells} :
            rows \in {BaseRows, Tail(BaseRows), <<BaseRows[1]>> \o BaseRows}}

LongRows == {<<a>> \o BaseRows : a \in OldBars(ScanMaxPrice)}

MainFrames(ticker, p) ==
    {FailedDownload}
    \cup {Frame(FALSE, OtherTag, rows) : rows \in GoodRows(p)}
    \cup {Frame(form[1], form[2], rows) :
            form \in Forms(ticker), rows \in SpoiledRows \cup LongRows}

\* a monthly, weekly or quarterly answer whose latest open is o
OpenAt(o) == Frame(FALSE, OtherTag, <<Bar(o, Num(1), Num(1), Num(1))>>)

Quote(main, monthly, second) ==
    [main |-> main, monthly |-> monthly, weekly |-> second, quarterly |-> second]

IdleScanner ==
    /\ UnsetLocals
    /\ pc = "idle"
    /\ idx = 0
    /\ call = NoCall
    /\ ret = <<>>

\* the pattern filters: nothing selected, everything (the default), a part
PatternChoices == {{}, available_patterns, {"1 (Inside)", "2U Green", "2D Red"}}

\* One ticker scanned, every history, every timeframe, the pattern filters varied.
PatternInit ==
    /\ IdleScanner
    /\ timeframe \in Timeframes
    /\ prev_patterns \in PatternChoices
    /\ curr_patterns \in PatternChoices
    /\ ftfc_filter = {"Any"}
    /\ limit_tickers = 1
    /\ \E main \in MainFrames(TICKERS[1], ScanMaxPrice) :
          market = [t \in 1..NumTickers |->
                      IF t = TICKERS[1]
                         THEN Quote(main, OpenAt(Num(1)), OpenAt(Num(2)))
                         ELSE NoQuote]

PatternSpec == PatternInit /\ [][ScanNext]_vars

\* three histories: 2U Green closing at 2, Undefined, too short
ContinuityMains ==
    { Frame(FALSE, OtherTag, BaseRows),
      Frame(FALSE, OtherTag, <<BaseRows[3], BaseRows[3], BaseRows[3]>>),
      Frame(FALSE, OtherTag, <<BaseRows[3]>>) }

HigherFrames ==
    {FailedDownload, EmptyFrame, OpenAt(NaNCell)} \cup {OpenAt(Num(n)) : n \in 1..3}

\* One ticker scanned, every selection of the continuity filter, every composite.
ContinuityInit ==
    /\ IdleScanner
    /\ timeframe \in Timeframes
    /\ prev_patterns \in {{}, available_patterns}
    /\ curr_patterns = prev_patterns
    /\ ftfc_filter \in SUBSET ftfc_options(timeframe)
    /\ limit_tickers = 1
    /\ \E main \in ContinuityMains, m \in HigherFrames, s \in HigherFrames :
          market = [t \in 1..NumTickers |->
                      IF t = TICKERS[1] THEN Quote(main, m, s) ELSE NoQuote]

ContinuitySpec == ContinuityInit /\ [][ScanNext]_vars

\* what one ticker of a longer scan may answer
CoarseQuotes ==
    {Quote(main, OpenAt(Num(1)), OpenAt(Num(3))) :
        main \in { FailedDownload,
                   EmptyFrame,
                   Frame(FALSE, OtherTag, <<BaseRows[3]>>),
                   Frame(FALSE, OtherTag, Tail(BaseRows)),
                   Frame(FALSE, OtherTag, BaseRows),
                   Frame(TRUE, OtherTag, BaseRows),
                   Frame(FALSE, OtherTag, <<BaseRows[1], BaseRows[2], BaseRows[2]>>),
                   Frame(FALSE, OtherTag,
                         [BaseRows EXCEPT ![3] = [BaseRows[3] EXCEPT !["Low"] = MissingCell]]),
                   Frame(FALSE, OtherTag,
                         [BaseRows EXCEPT ![3] = [BaseRows[3] EXCEPT !["Close"] = NaNCell]]) }}
    \cup {Quote(Frame(FALSE, OtherTag, BaseRows), FailedDownload, EmptyFrame)}

\* Every limit, every timeframe, every market of coarse quotes.
Init ==
    /\ IdleScanner
    /\ timeframe \in Timeframes
    /\ prev_patterns \in {{}, available_patterns}
    /\ curr_patterns = prev_patterns
    /\ ftfc_filter \in {{"Any"}, {"M: Bullish"}}
    /\ limit_tickers \in 0..NumTickers
    /\ market \in [1..NumTickers -> CoarseQuotes]

Next == ScanNext

Spec == Init /\ [][Next]_vars

\* The script starts with the default widgets; the user sets them (each change
\* reruns the script up to the button) while the provider's answers of the day
\* get fixed, and then the button is pressed.
SessionInit ==
    /\ UnsetLocals
    /\ DefaultWidgets
    /\ market = [t \in 1..NumTickers |-> NoQuote]
    /\ pc = "setup"
    /\ idx = 0
    /\ call = NoCall
    /\ ret = <<>>

\* what a download of the session may answer: it raises, it is empty, it holds
\* 1, 2 or 3 bars
SessionQuotes ==
    {Quote(main, OpenAt(Num(1)), OpenAt(Num(3))) :
        main \in { FailedDownload,
                   EmptyFrame,
                   Frame(FALSE, OtherTag, <<BaseRows[3]>>),
                   Frame(FALSE, OtherTag, Tail(BaseRows)),
                   Frame(FALSE, OtherTag, BaseRows) }}

Configure ==
    /\ pc = "setup"
    /\ pc' = "idle"
    /\ timeframe' \in Timeframes
    /\ limit_tickers' \in 0..NumTickers
    /\ market' \in [1..NumTickers -> SessionQuotes]
    /\ UNCHANGED <<prev_patterns, curr_patterns, ftfc_filter, idx, locals, call, ret>>

SessionNext == Configure \/ ScanNext

\* The loop is straight-line code between downloads, and a download returns or
\* raises: a pass that can be taken is taken.
FairSpec == SessionInit /\ [][SessionNext]_vars /\ WF_vars(ScanTicker) /\ WF_vars(Finish)

----------------------------------------------------------------------------
(* Properties of strat_type (ClassifySpec) *)

Returned(fn) == call.fn = fn /\ ret # <<>>

\* the six cells strat_type reads are numbers
SixNumbers ==
    /\ call.prev.cells["High"].k = "num" /\ call.prev.cells["Low"].k = "num"
    /\ \A col \in Fields : call.curr.cells[col].k = "num"

\* C1: for every pair of bars whose six prices are numbers, strat_type returns
\* Inside if curr.high < prev.high and curr.low > prev.low, else Outside if
\* curr.high > prev.high and curr.low < prev.low, else 2U <color> if
\* curr.high > prev.high, else 2D <color> if curr.low < prev.low, else Undefined,
\* with color Green when curr.close >= curr.open and Red otherwise.
C1_Precedence ==
    (Returned("strat_type") /\ SixNumbers) =>
        LET ph == call.prev.cells["High"].v
            pl == call.prev.cells["Low"].v
            ch == call.curr.cells["High"].v
            cl == call.curr.cells["Low"].v
            green == call.curr.cells["Close"].v >= call.curr.cells["Open"].v
        IN  /\ (ch < ph /\ cl > pl) => ret[1] = "1 (Inside)"
            /\ (~(ch < ph /\ cl > pl) /\ ch > ph /\ cl < pl) => ret[1] = "3 (Outside)"
            /\ (ch > ph /\ cl >= pl /\ green) => ret[1] = "2U Green"
            /\ (ch > ph /\ cl >= pl /\ ~green) => ret[1] = "2U Red"
            /\ (ch <= ph /\ cl < pl /\ green) => ret[1] = "2D Green"
            /\ (ch <= ph /\ cl < pl /\ ~green) => ret[1] = "2D Red"
            /\ (ch <= ph /\ cl >= pl /\ ~(ch < ph /\ cl > pl)) => ret[1] = "Undefined"

\* an Outside bar that closes where it opened, and a 2U bar that does
C1_Witness ==
    /\ Returned("strat_type") /\ SixNumbers
    /\ call.curr.cells["Close"] = call.curr.cells["Open"]
    /\ call.curr.cells["High"].v > call.prev.cells["High"].v
    /\ call.curr.cells["Low"].v = call.prev.cells["Low"].v
    /\ ret[1] = "2U Green"

\* C2 as claimed: strat_type returns Undefined if and only if the current high
\* equals the previous high and the current low equals the previous low.
C2_UndefinedIffFlat ==
    (Returned("strat_type") /\ SixNumbers) =>
        (ret[1] = "Undefined"
            <=> (/\ call.curr.cells["High"].v = call.prev.cells["High"].v
                 /\ call.curr.cells["Low"].v = call.prev.cells["Low"].v))

\* C2 amended: for prices that are numbers, strat_type returns Undefined if and
\* only if the current bar stays within the previous range (high <= previous
\* high, low >= previous low) and touches it on at least one side (high equal
\* or low equal); the flat pair is one such case.
C2_UndefinedIffTouching ==
    (Returned("strat_type") /\ SixNumbers) =>
        (ret[1] = "Undefined"
            <=> (/\ call.curr.cells["High"].v <= call.prev.cells["High"].v
                 /\ call.curr.cells["Low"].v >= call.prev.cells["Low"].v
                 /\ \/ call.curr.cells["High"].v = call.prev.cells["High"].v
                    \/ call.curr.cells["Low"].v = call.prev.cells["Low"].v))

\* Undefined for a pair that is not flat: equal highs, a higher low
C2_Witness ==
    /\ Returned("strat_type") /\ SixNumbers
    /\ call.curr.cells["High"].v = call.prev.cells["High"].v
    /\ call.curr.cells["Low"].v > call.prev.cells["Low"].v
    /\ ret[1] = "Undefined"

----------------------------------------------------------------------------
(* Properties of calculate_ftfc (FtfcSpec) *)

\* what the claim lets one timeframe contribute: its answer, the tag letter
Contribution(frame, P) ==
    LET readable == /\ ~frame.raised
                    /\ frame.rows # <<>>
                    /\ (frame.multi => frame.tag = call.ticker)
                    /\ frame.rows[Len(frame.rows)]["Open"].k = "num"
        open == frame.rows[Len(frame.rows)]["Open"].v
    IN  IF readable /\ ~call.current_close.nan /\ call.current_close.v > open
           THEN <<P \o ": Bullish">>
        ELSE IF readable /\ ~call.current_close.nan /\ call.current_close.v < open
           THEN <<P \o ": Bearish">>
        ELSE <<>>

SecondFrame ==
    IF call.is_quarterly THEN market[call.ticker].quarterly ELSE market[call.ticker].weekly

\* C5: calculate_ftfc never raises and returns the tags of Monthly and then of
\* Weekly (Quarterly in quarterly mode), each contributed when its bars came back
\* and the reference close is above (Bullish) or below (Bearish) the latest
\* open, joined by ", ", or "N/A" when neither contributed; a failure of one
\* timeframe leaves the other's tag in place.
C5_Composite ==
    Returned("calculate_ftfc") =>
        LET tags == Contribution(market[call.ticker].monthly, "M")
                    \o Contribution(SecondFrame, IF call.is_quarterly THEN "Q" ELSE "W")
        IN  /\ ~ret[1].raised
            /\ ret[1].val = CASE Len(tags) = 0 -> <<"N/A">>
                              [] Len(tags) = 1 -> tags
                              [] Len(tags) = 2 -> <<tags[1], ", ", tags[2]>>

\* the monthly download raised and the weekly tag is still there
C5_Witness ==
    /\ Returned("calculate_ftfc")
    /\ market[call.ticker].monthly.raised
    /\ ~call.is_quarterly
    /\ ret[1].val = <<"W: Bearish">>

----------------------------------------------------------------------------
(* Properties of the scan *)

HasRow(ticker) == \E k \in DOMAIN results : results[k].Ticker = ticker

\* the tickers whose pass of the loop is over
Scanned == {tickers_to_scan[i] : i \in 1..idx}

MainOf(ticker) == market[ticker].main

\* the main download raised, came back empty or shorter than the minimum
FetchFails(ticker) ==
    \/ MainOf(ticker).raised
    \/ Len(MainOf(ticker).rows) < min_candles_map(timeframe)

\* C3: a symbol whose main download raises, returns no bars or returns fewer
\* than the minimum (3, or 2 for 3-Month) gets no result row; the scan is never
\* aborted, it reaches its end with every symbol of the universe passed, and a
\* later symbol that qualifies has its row.
C3_SkipAndContinue ==
    /\ [](\A t \in Scanned : FetchFails(t) => ~HasRow(t))
    /\ [](pc \in {"setup", "idle", "scanning", "done"})
    /\ [](pc = "done" =>
            /\ idx = total
            /\ \A t \in Scanned : Iteration(t).stage = "row" => HasRow(t))
    /\ (pc = "scanning" ~> pc = "done")

\* the first download raised, the second symbol was scanned and has its row
C3_Witness ==
    /\ pc = "done"
    /\ total >= 2
    /\ MainOf(tickers_to_scan[1]).raised
    /\ Len(MainOf(tickers_to_scan[2]).rows) >= 3
    /\ ~HasRow(tickers_to_scan[1])
    /\ HasRow(tickers_to_scan[2])

\* the cells the classification of ticker's bars reads
ClassifiedCells(ticker) ==
    LET rows == MainOf(ticker).rows
        n == Len(rows)
    IN  {rows[n][col] : col \in Fields} \cup {rows[n - 1]["High"], rows[n - 1]["Low"]}
        \cup (IF is_3m THEN {}
              ELSE {rows[n - 1]["Open"], rows[n - 1]["Close"],
                    rows[n - 2]["High"], rows[n - 2]["Low"]})

\* C4: a symbol with a missing, non-numeric or NaN price among the cells its
\* classification reads never appears in the results, whatever the filters.
C4_NoBadPriceInResults ==
    \A k \in DOMAIN results : ClassifiedCells(results[k].Ticker) \cap BadCells = {}

\* C6: the tickers of the result rows are a subsequence of tickers_to_scan: each
\* at most once, in the order of the scan, none from outside it.
C6_InputOrder ==
    /\ \A k \in DOMAIN results :
          \E i \in 1..idx : tickers_to_scan[i] = results[k].Ticker
    /\ \A j, k \in DOMAIN results :
          j < k => \E a, b \in 1..idx :
                      /\ a < b
                      /\ tickers_to_scan[a] = results[j].Ticker
                      /\ tickers_to_scan[b] = results[k].Ticker

\* two rows in the results, the scan over
C6_Witness ==
    /\ pc = "done"
    /\ Len(results) >= 2
    /\ results[1].Ticker = tickers_to_scan[1]

LastBar(ticker) == MainOf(ticker).rows[Len(MainOf(ticker).rows)]

\* C7: Direction is Up when the last bar's close >= its open and Down otherwise.
C7_DirectionInclusive ==
    \A k \in DOMAIN results :
        LET bar == LastBar(results[k].Ticker)
        IN  results[k].Direction =
                IF bar["Close"].k = "num" /\ bar["Open"].k = "num"
                   /\ bar["Close"].v >= bar["Open"].v
                   THEN "Up" ELSE "Down"

\* C8: in every timeframe the current pattern is the class of the last two bars,
\* the previous pattern is the class of the two bars before the last when the
\* history has 3 bars or more, and it is "N/A (3M)" only for a history of 2.
C8_PreviousWhenThreeBars ==
    \A k \in DOMAIN results :
        LET t == results[k].Ticker
            d == MainOf(t)
        IN  /\ results[k].Current = strat_type(iloc(d, -2), iloc(d, -1), t)
            /\ Len(d.rows) >= 3 =>
                  results[k].Previous = strat_type(iloc(d, -3), iloc(d, -2), t)
            /\ results[k].Previous = "N/A (3M)" => Len(d.rows) = 2

\* C9 as claimed: a row is in the results only if both filters hold of it, and a
\* previous pattern "N/A (3M)" satisfies the previous filter only when it is empty.
C9_BothFilters ==
    \A k \in DOMAIN results :
        /\ prev_patterns = {} \/ results[k].Previous \in prev_patterns
        /\ curr_patterns = {} \/ results[k].Current \in curr_patterns

\* C9 amended: a row is in the results only if the current filter is empty or
\* holds its current pattern and, unless its previous pattern is "N/A (3M)",
\* the previous filter is empty or holds its previous pattern; for a previous
\* pattern "N/A (3M)" the previous filter is not consulted.
C9_FiltersUnlessNA ==
    \A k \in DOMAIN results :
        /\ curr_patterns = {} \/ results[k].Current \in curr_patterns
        /\ results[k].Previous # "N/A (3M)" =>
              (prev_patterns = {} \/ results[k].Previous \in prev_patterns)

\* a 3-Month row kept by a partial current filter under a non-empty previous filter
C9_Witness ==
    /\ Len(results) = 1
    /\ results[1].Previous = "N/A (3M)"
    /\ prev_patterns # {}
    /\ curr_patterns # {} /\ curr_patterns # available_patterns
    /\ Len(MainOf(results[1].Ticker).rows) = 2

\* what the claim lets one selected option accept
Accepts(option, str) ==
    LET second == IF is_3m THEN "Q" ELSE "W"
    IN  CASE option = "Any" -> TRUE
          [] option = "Both Bullish" ->
                In("M: Bullish", str) /\ In(second \o ": Bullish", str)
          [] option = "Both Bearish" ->
                In("M: Bearish", str) /\ In(second \o ": Bearish", str)
          [] OTHER -> In(option, str)

\* C10: a symbol that passed the pattern filters has a row exactly when some
\* selected continuity option accepts its composite tag.
C10_SomeOptionAccepts ==
    \A t \in Scanned :
        Iteration(t).stage \in {"ftfc", "row"} =>
            (HasRow(t) <=> \E option \in ftfc_filter : Accepts(option, Iteration(t).ftfc))

=============================================================================
